---- MODULE Spec2Model ----
(***************************************************************************)
(* The conversation store of meshtastic-web (frontend/src/store/index.ts), *)
(* the conversation filter, the reaction fold, the unread reset and the    *)
(* send of ChatArea.tsx, the requests to the transport, and the trace      *)
(* route of NodeInfoPanel.                                                 *)
(*                                                                         *)
(* A JavaScript object is a record whose DOMAIN is the set of keys the     *)
(* object has: a key that is missing is not in the DOMAIN, a key that is   *)
(* present with the value null or undefined holds Nil (string and object   *)
(* fields) or Undefined (numeric fields).  The code never tells null from  *)
(* undefined, so one value stands for both.                                *)
(***************************************************************************)
EXTENDS Integers, Sequences, FiniteSets, TLC

VARIABLES
    status,     \* MeshState.status
    messages,   \* MeshState.messages
    nodes,      \* MeshState.nodes
    last,       \* history: the store operation applied last, with its arguments
    earlyAck,   \* history: packet ids acked while no stored message bore them
    crossed,    \* history: an update's id matched one node and its num another
    currentChat,\* MeshState.currentChat
    display,    \* ChatArea: processedMessages as last rendered, with its input
    unreadCount,    \* MeshState.unreadCount
    unreadPerChat,  \* MeshState.unreadPerChat
    isPageActive,   \* ChatArea: isPageActive
    calls,          \* history: incrementUnreadForChat calls per key since its last reset
    incremented,    \* history: incrementUnread was called
    requests,       \* the requests to the transport that await their response
    sendCount,      \* history: the number of send requests issued
    selectedNode,       \* MeshState.selectedNode
    tracerouteResult,   \* MeshState.tracerouteResult
    tracerouteTimeout,  \* NodeInfoPanel: tracerouteTimeout
    timers,             \* the timeouts set by handleTraceroute that are pending
    timeoutRef,         \* NodeInfoPanel: timeoutRef.current, a handle
    handles,            \* history: the number of timeouts set
    tracedNode,         \* history: the id of the node of the latest trace route request
    awaited             \* history: the ids of the nodes with a request and no result since

\* the variables of the chat view
view == <<currentChat, display>>

\* the variables of the unread counts
unread == <<unreadCount, unreadPerChat, isPageActive, calls, incremented>>

\* the variables of the requests to the transport
io == <<requests, sendCount>>

\* the variables of the node panel and its trace route
trace == <<selectedNode, tracerouteResult, tracerouteTimeout, timers, timeoutRef, handles,
           tracedNode, awaited>>

vars == <<status, messages, nodes, last, earlyAck, crossed, view, unread, io, trace>>

----------------------------------------------------------------------------
(* JavaScript values *)

\* null / undefined in a numeric field (packet_id, reply_id)
Undefined == -1

\* null / undefined in a string or object field
Nil == "null"

\* `x ? .. : ..` on a number: 0, null and undefined are falsy
TruthyNum(n) == n # Undefined /\ n # 0

\* `!x` on a string: "", null and undefined are falsy
TruthyStr(s) == s # Nil /\ s # ""

\* o.k for a numeric field: undefined when the key is missing
NumField(o, k) == IF k \in DOMAIN o THEN o[k] ELSE Undefined

\* o.k for a string or object field: undefined when the key is missing
StrField(o, k) == IF k \in DOMAIN o THEN o[k] ELSE Nil

\* { ...a, ...b }: every key of either, b's value where b has the key
Spread(a, b) ==
    [k \in (DOMAIN a) \cup (DOMAIN b) |-> IF k \in DOMAIN b THEN b[k] ELSE a[k]]

\* Array.prototype.findIndex, given the indexes whose element satisfies the
\* predicate: the first of them, 0 (for -1) when there is none
FindIndex(hits) ==
    IF hits = {} THEN 0 ELSE CHOOSE i \in hits : \A j \in hits : i <= j

\* A timestamp is a number or a date string (string | number).  Its value in the
\* model is a time in seconds since the epoch: the number itself, the time a
\* string with a zone denotes, and the UTC reading of a string without a zone.
Seconds(n) == [format |-> "number", value |-> n]
Zoned(t) == [format |-> "zoned", value |-> t]
Unzoned(t) == [format |-> "unzoned", value |-> t]

\* Date.prototype.toISOString of the time t: a string with the zone Z
toISOString(t) == Zoned(t)

\* Date.prototype.getTimezoneOffset, in minutes: a browser one hour east of UTC
getTimezoneOffset == -60

\* parseTimestamp of formatTime, as milliseconds: a number is taken for
\* seconds, and a string without a zone is read as UTC
parseTimestamp(timestamp) == 1000 * timestamp.value

\* A text is the sequence of its characters.  The characters of the model:
\* two letters, the space, and two emoji (U+1F600 and U+1F44D).
Space == " "
Grin == "U+1F600"
ThumbsUp == "U+1F44D"
Hi == <<"h", "i">>

\* \s of the regular expressions, on the characters of the model
IsWhitespace(c) == c = Space

\* String.prototype.trim: leading and trailing whitespace removed
RECURSIVE Trim(_)
Trim(text) ==
    IF text = <<>> THEN text
    ELSE IF IsWhitespace(Head(text)) THEN Trim(Tail(text))
    ELSE IF IsWhitespace(text[Len(text)]) THEN Trim(SubSeq(text, 1, Len(text) - 1))
    ELSE text

----------------------------------------------------------------------------
(* Bounds *)

\* most messages the store holds in the model
MaxMessages == 3

\* most messages a snapshot response carries in the model
MaxSnapshot == 2

\* most nodes the store holds in the model
MaxNodes == 2

----------------------------------------------------------------------------
(* Messages: the store operations *)

\* addMessage resolved by packet_id alone: the id check of line 86 left out
addMessage_NoIdCheck(msgs, message) ==
    LET pid == NumField(message, "packet_id")
        existingIdx == IF TruthyNum(pid)
                       THEN FindIndex({ i \in 1..Len(msgs) : NumField(msgs[i], "packet_id") = pid })
                       ELSE 0
    IN  IF existingIdx > 0
        THEN [msgs EXCEPT ![existingIdx] = Spread(msgs[existingIdx], message)]
        ELSE Append(msgs, message)

\* addMessage that merges an event of a known id into the message of that id
addMessage_MergesById(msgs, message) ==
    LET pid == NumField(message, "packet_id")
        existingIdx == IF TruthyNum(pid)
                       THEN FindIndex({ i \in 1..Len(msgs) : NumField(msgs[i], "packet_id") = pid })
                       ELSE 0
        idIdx == FindIndex({ i \in 1..Len(msgs) : NumField(msgs[i], "id") = NumField(message, "id") })
    IN  IF existingIdx > 0
        THEN [msgs EXCEPT ![existingIdx] = Spread(msgs[existingIdx], message)]
        ELSE IF idIdx > 0
             THEN [msgs EXCEPT ![idIdx] = Spread(msgs[idIdx], message)]
             ELSE Append(msgs, message)

\* addMessage: merge by packet_id, else discard a known id, else append
addMessage(msgs, message) ==
    LET pid == NumField(message, "packet_id")
        existingIdx == IF TruthyNum(pid)
                       THEN FindIndex({ i \in 1..Len(msgs) : NumField(msgs[i], "packet_id") = pid })
                       ELSE 0
    IN  IF existingIdx > 0
        THEN [msgs EXCEPT ![existingIdx] = Spread(msgs[existingIdx], message)]
        ELSE IF \E i \in 1..Len(msgs) : NumField(msgs[i], "id") = NumField(message, "id")
             THEN msgs
             ELSE Append(msgs, message)

\* setMessages: the list is replaced by the argument
setMessages(msgs, snapshot) == snapshot

\* updateMessageAck that takes a message without packet_id for a match
updateMessageAck_AbsentMatches(msgs, packetId, ackStatus) ==
    [i \in 1..Len(msgs) |->
        IF NumField(msgs[i], "packet_id") \in {packetId, Undefined}
        THEN Spread(msgs[i], [ack_status |-> ackStatus])
        ELSE msgs[i]]

\* updateMessageAck that puts a new record in the place of a matching message
updateMessageAck_NewRecord(msgs, packetId, ackStatus) ==
    [i \in 1..Len(msgs) |->
        IF NumField(msgs[i], "packet_id") = packetId
        THEN [id |-> msgs[i].id, packet_id |-> packetId, ack_status |-> ackStatus]
        ELSE msgs[i]]

\* updateMessageAck: ack_status of every message bearing packetId
updateMessageAck(msgs, packetId, ackStatus) ==
    [i \in 1..Len(msgs) |->
        IF NumField(msgs[i], "packet_id") = packetId
        THEN Spread(msgs[i], [ack_status |-> ackStatus])
        ELSE msgs[i]]

\* the record useSendMessage adds once the send request has been answered
LocalRecord(st, packet_id, data, now) ==
    [id          |-> packet_id,
     packet_id   |-> packet_id,
     sender      |-> IF TruthyStr(StrField(st, "my_node_id"))
                     THEN st.my_node_id ELSE "local",
     receiver    |-> StrField(data, "destination_id"),
     channel     |-> IF TruthyNum(NumField(data, "channel_index"))
                     THEN data.channel_index ELSE 0,
     text        |-> data.text,
     timestamp   |-> toISOString(now),
     ack_status  |-> "pending",
     is_outgoing |-> TRUE,
     reply_id    |-> NumField(data, "reply_id")]

----------------------------------------------------------------------------
(* Nodes: the store operation *)

\* the optional fields of a Node
NodeFields == {"user", "lastHeard", "deviceMetrics", "position", "snr"}

\* the object without key k: `delete o.k`
Delete(o, k) == [f \in (DOMAIN o) \ {k} |-> o[f]]

\* updateNode with a null position left in the incoming object
updateNode_KeepNullPosition(ns, node) ==
    LET idx == FindIndex({ i \in 1..Len(ns) : ns[i].id = node.id \/ ns[i].num = node.num })
    IN  IF idx > 0
        THEN [ns EXCEPT ![idx] = Spread(ns[idx], node)]
        ELSE Append(ns, node)

\* updateNode looking the node up by id alone
updateNode_ByIdOnly(ns, node) ==
    LET idx == FindIndex({ i \in 1..Len(ns) : ns[i].id = node.id })
        incoming == IF StrField(node, "position") = Nil
                    THEN Delete(node, "position") ELSE node
    IN  IF idx > 0
        THEN [ns EXCEPT ![idx] = Spread(ns[idx], incoming)]
        ELSE Append(ns, incoming)

\* updateNode: merge into the first node with the id or the num, else append
updateNode(ns, node) ==
    LET idx == FindIndex({ i \in 1..Len(ns) : ns[i].id = node.id \/ ns[i].num = node.num })
        incoming == IF StrField(node, "position") = Nil
                    THEN Delete(node, "position") ELSE node
    IN  IF idx > 0
        THEN [ns EXCEPT ![idx] = Spread(ns[idx], incoming)]
        ELSE Append(ns, incoming)

----------------------------------------------------------------------------
(* Conversations: ChatArea's filter and send *)

\* ChatTarget values; NoChat is currentChat = null
ChannelChat(index) == [type |-> "channel", index |-> index]
DmChat(nodeId) == [type |-> "dm", nodeId |-> nodeId]
NoChat == [type |-> "none"]

\* the chat view before its first render, and after the store changed under it
NotRendered == [rendered |-> FALSE]

\* selectedNode = null and tracerouteResult = null
NoNode == [selected |-> FALSE]
NoResult == [result |-> FALSE]

\* timeoutRef.current = null: no handle; setTimeout returns handles above 0
NoTimer == 0

\* the filter with the channel branch testing the channel index alone
filteredMessages_ChannelOnly(msgs, chat) ==
    SelectSeq(msgs, LAMBDA m :
        IF chat = NoChat THEN FALSE
        ELSE IF chat.type = "channel"
        THEN m.channel = chat.index
        ELSE /\ (m.sender = chat.nodeId \/ m.receiver = chat.nodeId)
             /\ TruthyStr(m.receiver)
             /\ m.receiver # "^all"
             /\ m.receiver # "broadcast")

\* filteredMessages: the stored messages of the current conversation
filteredMessages(msgs, chat) ==
    SelectSeq(msgs, LAMBDA m :
        IF chat = NoChat THEN FALSE
        ELSE IF chat.type = "channel"
        THEN /\ m.channel = chat.index
             /\ (~TruthyStr(m.receiver) \/ m.receiver = "^all" \/ m.receiver = "broadcast")
        ELSE /\ (m.sender = chat.nodeId \/ m.receiver = chat.nodeId)
             /\ TruthyStr(m.receiver)
             /\ m.receiver # "^all"
             /\ m.receiver # "broadcast")

\* the data handleSend passes to sendMessage.mutate for the current chat
HandleSendData(chat, text, replyId) ==
    [text           |-> text,
     destination_id |-> IF chat.type = "dm" THEN chat.nodeId ELSE Nil,
     channel_index  |-> IF chat.type = "channel" THEN chat.index ELSE 0,
     reply_id       |-> replyId]

----------------------------------------------------------------------------
(* Conversations: ChatArea's processedMessages *)

\* \p{Extended_Pictographic} or \p{Emoji_Presentation}, on the characters of the model
IsPictographic(c) == c \in {Grin, ThumbsUp}

\* EMOJI_ONLY_REGEX.test: one or more characters, each an emoji or whitespace
EMOJI_ONLY_REGEX(text) ==
    /\ Len(text) >= 1
    /\ \A k \in 1..Len(text) : IsPictographic(text[k]) \/ IsWhitespace(text[k])

\* new Date(timestamp).getTime() of a message, in milliseconds: a number is
\* taken for milliseconds, a string with a zone is parsed to its time, and a
\* string without a zone is read as local time of the browser
getTime(m) ==
    LET timestamp == m.timestamp
    IN  IF timestamp.format = "number" THEN timestamp.value
        ELSE IF timestamp.format = "zoned" THEN 1000 * timestamp.value
        ELSE 1000 * (timestamp.value + 60 * getTimezoneOffset)

\* [...filteredMessages].sort by time: ascending, equal times keep their order
RECURSIVE sorted(_)
sorted(msgs) ==
    IF msgs = <<>> THEN <<>>
    ELSE LET m == msgs[Len(msgs)]
             front == sorted(SubSeq(msgs, 1, Len(msgs) - 1))
         IN SelectSeq(front, LAMBDA x : getTime(x) <= getTime(m))
            \o <<m>>
            \o SelectSeq(front, LAMBDA x : getTime(x) > getTime(m))

\* the target of a reaction with the sender pushed whether recorded or not
Attach_NoDedup(target, emoji, sender) ==
    LET reactions == target.reactions
        senders == IF emoji \in DOMAIN reactions THEN reactions[emoji] ELSE <<>>
    IN [target EXCEPT !.reactions =
            [e \in DOMAIN reactions \cup {emoji} |->
                IF e = emoji THEN Append(senders, sender) ELSE reactions[e]]]

\* the target of a reaction after the sender's emoji is recorded on it
Attach(target, emoji, sender) ==
    LET reactions == target.reactions
        senders == IF emoji \in DOMAIN reactions THEN reactions[emoji] ELSE <<>>
        pushed == IF \E k \in 1..Len(senders) : senders[k] = sender
                  THEN senders ELSE Append(senders, sender)
    IN [target EXCEPT !.reactions =
            [e \in DOMAIN reactions \cup {emoji} |->
                IF e = emoji THEN pushed ELSE reactions[e]]]

\* the walk with a reaction attached to the first displayed message
forEachMsg_FirstTarget(result, msg) ==
    LET isEmoji == EMOJI_ONLY_REGEX(Trim(msg.text))
    IN IF isEmoji /\ Len(result) > 0
       THEN [result EXCEPT ![1] = Attach(result[1], Trim(msg.text), msg.sender)]
       ELSE Append(result, Spread(msg, [reactions |-> <<>>]))

\* the walk with an emoji-only message that has nothing before it left out
forEachMsg_DropLeading(result, msg) ==
    LET isEmoji == EMOJI_ONLY_REGEX(Trim(msg.text))
    IN IF isEmoji
       THEN IF Len(result) > 0
            THEN [result EXCEPT ![Len(result)] =
                      Attach(result[Len(result)], Trim(msg.text), msg.sender)]
            ELSE result
       ELSE Append(result, Spread(msg, [reactions |-> <<>>]))

\* the callback of sorted.forEach in processedMessages: one step of the walk
forEachMsg(result, msg) ==
    LET isEmoji == EMOJI_ONLY_REGEX(Trim(msg.text))
    IN IF isEmoji /\ Len(result) > 0
       THEN [result EXCEPT ![Len(result)] =
                 Attach(result[Len(result)], Trim(msg.text), msg.sender)]
       ELSE Append(result, Spread(msg, [reactions |-> <<>>]))

\* sorted.forEach: the walk over the ordered messages, result as it grows
RECURSIVE forEach(_, _)
forEach(msgs, result) ==
    IF msgs = <<>> THEN result
    ELSE forEach(Tail(msgs), forEachMsg(result, Head(msgs)))

\* processedMessages: the displayed messages of the filtered ones
processedMessages(filtered) == forEach(sorted(filtered), <<>>)

\* repliedMessage of MessageBubble: the index of the first stored message
\* whose packet_id or id is the reply_id of the displayed message, 0 (for null)
\* when reply_id is falsy or no message has it
repliedMessage(msgs, message) ==
    LET reply_id == NumField(message, "reply_id")
    IN  IF TruthyNum(reply_id)
        THEN FindIndex({ i \in 1..Len(msgs) :
                           \/ NumField(msgs[i], "packet_id") = reply_id
                           \/ NumField(msgs[i], "id") = reply_id })
        ELSE 0

\* the walk that sets reactions on the stored message and pushes that object
storedAfterPush_SameObject(msg) == Spread(msg, [reactions |-> <<>>])

\* the stored message msg after result.push({ ...msg, reactions: {} }): the
\* object pushed is a new one, and the reactions are recorded on that one
storedAfterPush(msg) == msg

\* the stored messages after processedMessages was computed: filter and
\* [...filteredMessages] make new arrays, the walk pushes the displayed ones
messagesAfterRender(msgs, processed) ==
    [i \in 1..Len(msgs) |->
        IF \E k \in 1..Len(processed) : processed[k].id = msgs[i].id
        THEN storedAfterPush(msgs[i])
        ELSE msgs[i]]

----------------------------------------------------------------------------
(* Unread counts: the store operations and ChatArea's effect *)

\* state.unreadPerChat[chatKey] || 0
getUnreadForChat(perChat, key) ==
    IF key \in DOMAIN perChat THEN perChat[key] ELSE 0

\* Math.max
Max(a, b) == IF a >= b THEN a ELSE b

\* incrementUnread: <<unreadCount, unreadPerChat>> after the call
incrementUnread(count, perChat) == <<count + 1, perChat>>

\* resetUnread
resetUnread(count, perChat) == <<0, <<>> >>

\* incrementUnreadForChat that sets the conversation's count to one
incrementUnreadForChat_SetOne(count, perChat, key) ==
    <<count + 1, Spread(perChat, [k \in {key} |-> 1])>>

\* incrementUnreadForChat
incrementUnreadForChat(count, perChat, key) ==
    LET current == getUnreadForChat(perChat, key)
    IN <<count + 1, Spread(perChat, [k \in {key} |-> current + 1])>>

\* resetUnreadForChat that takes the count off the total and keeps the entry
resetUnreadForChat_KeepsEntry(count, perChat, key) ==
    LET unreadForChat == getUnreadForChat(perChat, key)
    IN <<Max(0, count - unreadForChat), perChat>>

\* resetUnreadForChat
resetUnreadForChat(count, perChat, key) ==
    LET unreadForChat == getUnreadForChat(perChat, key)
    IN <<Max(0, count - unreadForChat), Delete(perChat, key)>>

\* chatKey of ChatArea: "channel:<index>", "dm:<nodeId>" or the empty string
chatKey(chat) ==
    IF chat = NoChat THEN ""
    ELSE IF chat.type = "channel" THEN "channel:" \o ToString(chat.index)
    ELSE "dm:" \o chat.nodeId

\* the effect of ChatArea that resets unread, without its test of isPageActive
resetUnreadEffect_AnyPage(changed, key, active) ==
    IF changed /\ key # "" THEN key ELSE ""

\* the effect of ChatArea that resets unread, run after a render in which
\* chatKey or isPageActive changed: the key it calls resetUnreadForChat with,
\* the empty string when it makes no call
resetUnreadEffect(changed, key, active) ==
    IF changed /\ key # "" /\ active THEN key ELSE ""

----------------------------------------------------------------------------
(* Messages: the events the transport delivers *)

\* a message as the transport pushes it or lists it in a snapshot
Message(id, packet_id, sender, receiver, channel, ack_status) ==
    [id          |-> id,
     packet_id   |-> packet_id,
     sender      |-> sender,
     receiver    |-> receiver,
     channel     |-> channel,
     text        |-> Hi,
     timestamp   |-> Seconds(1),
     ack_status  |-> ack_status,
     is_outgoing |-> FALSE,
     reply_id    |-> Undefined]

\* packet ids of the model: zero and a mesh packet id
PacketIds == {0, 7}

\* statuses an ack event carries
AckEvents == {"ack", "nak"}

\* message events of the store specification
StoreEvents ==
    { Message(id, pid, "a", Nil, 0, ack) :
        id \in {1, 2}, pid \in PacketIds \cup {Undefined}, ack \in {"pending", "ack"} }

\* send requests of the store specification: a send to channel 0
StoreSends == { HandleSendData(ChannelChat(0), Hi, Undefined) }

\* the clock reading useSendMessage stamps the local record with
Now == 2

\* packet ids the transport answers a send request with
SendPacketIds == {7}

\* a list with pairwise distinct ids and pairwise distinct present packet ids
WellFormed(s) ==
    \A i, j \in 1..Len(s) :
        i # j => /\ s[i].id # s[j].id
                 /\ (s[i].packet_id # Undefined => s[i].packet_id # s[j].packet_id)

\* all sequences over S of length at most n
SeqUpTo(S, n) == UNION { [1..k -> S] : k \in 0..n }

\* snapshot responses of the store specification
StoreSnapshots == { s \in SeqUpTo(StoreEvents, MaxSnapshot) : WellFormed(s) }

----------------------------------------------------------------------------
(* Initial state: the store as create() builds it *)

Init ==
    /\ status = [connected |-> FALSE]
    /\ messages = <<>>
    /\ nodes = <<>>
    /\ last = [op |-> "init"]
    /\ earlyAck = {}
    /\ crossed = FALSE
    /\ currentChat = NoChat
    /\ display = NotRendered
    /\ unreadCount = 0
    /\ unreadPerChat = <<>>
    /\ isPageActive = TRUE
    /\ calls = <<>>
    /\ incremented = FALSE
    /\ requests = <<>>
    /\ sendCount = 0
    /\ selectedNode = NoNode
    /\ tracerouteResult = NoResult
    /\ tracerouteTimeout = FALSE
    /\ timers = {}
    /\ timeoutRef = NoTimer
    /\ handles = 0
    /\ tracedNode = ""
    /\ awaited = {}

----------------------------------------------------------------------------
(* Message actions *)

\* the packet ids a message list bears
StoredPacketIds(msgs) == { NumField(msgs[i], "packet_id") : i \in 1..Len(msgs) }

\* an addMessage call with message m
DoAddMessage(op, m) ==
    /\ Len(addMessage(messages, m)) <= MaxMessages
    /\ messages' = addMessage(messages, m)
    /\ last' = [op |-> op, message |-> m,
                again |-> (last.op = op /\ last.message = m),
                early |-> (NumField(m, "packet_id") \in earlyAck)]
    /\ earlyAck' = earlyAck \ StoredPacketIds(messages')
    /\ display' = NotRendered
    /\ UNCHANGED <<trace, unread, status, nodes, crossed, currentChat>>

\* a pushed message event reaches addMessage
AddMessage(E) == \E m \in E : DoAddMessage("addMessage", m) /\ UNCHANGED io

\* useSendMessage: the send request is answered and the local record is added
SendMessage(D) ==
    \E data \in D, pid \in SendPacketIds :
        DoAddMessage("sendMessage", LocalRecord(status, pid, data, Now)) /\ UNCHANGED io

\* useMessages: a snapshot response reaches setMessages
SetMessages(S) ==
    \E snapshot \in S :
        /\ Len(snapshot) <= MaxMessages
        /\ messages' = setMessages(messages, snapshot)
        /\ last' = [op |-> "setMessages"]
        /\ earlyAck' = earlyAck \ StoredPacketIds(messages')
        /\ display' = NotRendered
        /\ UNCHANGED <<trace, io, unread, status, nodes, crossed, currentChat>>

\* a pushed ack event reaches updateMessageAck
UpdateMessageAck ==
    \E packetId \in PacketIds, ackStatus \in AckEvents :
        /\ messages' = updateMessageAck(messages, packetId, ackStatus)
        /\ last' = [op |-> "updateMessageAck", packetId |-> packetId,
                    ackStatus |-> ackStatus]
        /\ earlyAck' = IF packetId \in StoredPacketIds(messages)
                       THEN earlyAck ELSE earlyAck \cup {packetId}
        /\ display' = NotRendered
        /\ UNCHANGED <<trace, io, unread, status, nodes, crossed, currentChat>>

NextStore ==
    \/ AddMessage(StoreEvents)
    \/ SendMessage(StoreSends)
    \/ SetMessages(StoreSnapshots)
    \/ UpdateMessageAck

SpecStore == Init /\ [][NextStore]_vars

----------------------------------------------------------------------------
(* The merge specification: events that carry a part of a message *)

\* a reply to packet 3 from node b, as the transport pushes it
Reply(id, packet_id, receiver, ack_status) ==
    Spread(Message(id, packet_id, "b", receiver, 0, ack_status), [reply_id |-> 3])

\* message events of the merge specification: a reply with all its fields, a
\* message with receiver and reply_id null, and an event of packet_id and
\* ack_status alone
MergeEvents ==
    { Reply(1, 7, "^all", "received"),
      Reply(2, 9, "a", "received"),
      Message(1, 7, "b", Nil, 0, "ack"),
      [packet_id |-> 7, ack_status |-> "ack"],
      [packet_id |-> 9, ack_status |-> "nak"] }

\* send requests of the merge specification: a reply to packet 3 on channel 0
MergeSends == { HandleSendData(ChannelChat(0), Hi, 3) }

NextMerge ==
    \/ AddMessage(MergeEvents)
    \/ SendMessage(MergeSends)
    \/ UpdateMessageAck

SpecMerge == Init /\ [][NextMerge]_vars

----------------------------------------------------------------------------
(* Node events and the node action *)

\* node identities of the model
NodeIds == {"a", "b"}
NodeNums == {1, 2}

\* what a node push carries besides id and num: metrics alone, metrics with
\* the unknown fields sent as null, a position with its signal quality, the
\* user record
NodePayloads ==
    { [deviceMetrics |-> "m1"],
      [deviceMetrics |-> "m1", position |-> Nil, snr |-> Nil],
      [position |-> "p1", snr |-> "s1"],
      [user |-> "u1", lastHeard |-> "h1"] }

\* node pushes of the model
NodeUpdates ==
    { Spread([id |-> i, num |-> n], p) : i \in NodeIds, n \in NodeNums, p \in NodePayloads }

\* the update's id matches one stored node and its num a different one
Crosses(ns, node) ==
    \E i, j \in 1..Len(ns) : i # j /\ ns[i].id = node.id /\ ns[j].num = node.num

\* a pushed node event reaches updateNode
UpdateNodes(U) ==
    \E node \in U :
        /\ Len(updateNode(nodes, node)) <= MaxNodes
        /\ nodes' = updateNode(nodes, node)
        /\ last' = [op |-> "updateNode", node |-> node]
        /\ crossed' = (crossed \/ Crosses(nodes, node))
        /\ UNCHANGED <<trace, io, unread, status, messages, earlyAck, view>>

UpdateNode == UpdateNodes(NodeUpdates)

NextNodes == UpdateNode

SpecNodes == Init /\ [][NextNodes]_vars

----------------------------------------------------------------------------
(* The conversation specification: messages of several conversations *)

\* receivers of the model: none, empty, the broadcast sentinels, a peer, this node
Receivers == {Nil, "", "^all", "broadcast", "b", "me"}

\* message events of the conversation specification
ChatEvents ==
    { Message(id, Undefined, "a", receiver, channel, "received") :
        id \in {1, 2}, receiver \in Receivers, channel \in {0, 1} }

\* send requests of the conversation specification: to a channel and to a peer
ChatSends == { HandleSendData(c, Hi, Undefined) : c \in {ChannelChat(1), DmChat("b")} }

NextChat ==
    \/ AddMessage(ChatEvents)
    \/ SendMessage(ChatSends)

SpecChat == Init /\ [][NextChat]_vars

----------------------------------------------------------------------------
(* The projection specification: texts, senders and times vary *)

\* the store after the effect of ChatArea called resetUnreadForChat(key), or
\* made no call (the empty key)
RunEffect(key) ==
    IF key # ""
    THEN /\ unreadCount' = resetUnreadForChat(unreadCount, unreadPerChat, key)[1]
         /\ unreadPerChat' = resetUnreadForChat(unreadCount, unreadPerChat, key)[2]
         /\ calls' = Delete(calls, key)
    ELSE UNCHANGED <<unreadCount, unreadPerChat, calls>>

\* setCurrentChat: the operator selects a conversation, or none; ChatArea
\* renders with the new chatKey and its effect runs
SetCurrentChat(C) ==
    \E chat \in C :
        /\ currentChat' = chat
        /\ display' = NotRendered
        /\ RunEffect(resetUnreadEffect(chatKey(chat) # chatKey(currentChat),
                                       chatKey(chat), isPageActive))
        /\ last' = [op |-> "setCurrentChat", chat |-> chat,
                    reset |-> resetUnreadEffect(chatKey(chat) # chatKey(currentChat),
                                                chatKey(chat), isPageActive),
                    n |-> getUnreadForChat(calls, chatKey(chat))]
        /\ UNCHANGED <<trace, io, isPageActive, incremented, status, messages, nodes,
                       earlyAck, crossed>>

\* ChatArea renders: filteredMessages and processedMessages are computed from
\* the store as it is, and each MessageBubble looks its repliedMessage up
Render ==
    /\ display = NotRendered
    /\ display' = [rendered  |-> TRUE,
                   filtered  |-> filteredMessages(messages, currentChat),
                   processed |-> processedMessages(filteredMessages(messages, currentChat)),
                   replied   |-> [k \in 1..Len(processedMessages(
                                             filteredMessages(messages, currentChat))) |->
                                     repliedMessage(messages,
                                         processedMessages(
                                             filteredMessages(messages, currentChat))[k])]]
    /\ messages' = messagesAfterRender(messages, display'.processed)
    /\ last' = [op |-> "render"]
    /\ UNCHANGED <<trace, io, unread, status, nodes, earlyAck, crossed, currentChat>>

\* a channel-0 message event with the given text and time
TextMessage(id, sender, text, timestamp) ==
    [Message(id, Undefined, sender, Nil, 0, "received")
        EXCEPT !.text = text, !.timestamp = timestamp]

ProjTexts == {Hi, <<Grin>>, <<Space, Grin>>, <<ThumbsUp>>}
ProjTimes == {Seconds(1), Seconds(2)}

\* message events of the projection specification whose id is not stored yet
ProjEvents ==
    { TextMessage(id, sender, text, timestamp) :
        id \in {1, 2, 3} \ { messages[i].id : i \in 1..Len(messages) },
        sender \in {"a", "b"}, text \in ProjTexts, timestamp \in ProjTimes }

ProjChats == {ChannelChat(0)}

NextProjection ==
    \/ AddMessage(ProjEvents)
    \/ SetCurrentChat(ProjChats)
    \/ Render

SpecProjection == Init /\ [][NextProjection]_vars

----------------------------------------------------------------------------
(* The order specification: timestamps of every format in one conversation *)

\* the timestamps the transport pushes
OrderTimes == {Seconds(1), Seconds(3), Seconds(1000), Unzoned(3), Zoned(1), Zoned(3)}

\* message events of the order specification: text messages on channel 0
OrderEvents ==
    { TextMessage(id, "a", Hi, timestamp) : id \in {1, 2}, timestamp \in OrderTimes }

NextOrder ==
    \/ AddMessage(OrderEvents)
    \/ SendMessage(StoreSends)
    \/ SetCurrentChat(ProjChats)
    \/ Render

SpecOrder == Init /\ [][NextOrder]_vars

----------------------------------------------------------------------------
(* The reply specification: messages that reply to a packet *)

\* the reply_id of an event: none, packet 0, packet 7, and a packet not seen
ReplyIds == {Undefined, 0, 7, 5}

\* message events of the reply specification: channel 0 messages
ReplyEvents ==
    { Spread(Message(id, pid, "a", Nil, 0, "received"), [reply_id |-> rid]) :
        id \in {1, 2}, pid \in PacketIds, rid \in ReplyIds }

NextReply ==
    \/ AddMessage(ReplyEvents)
    \/ SetCurrentChat(ProjChats)
    \/ Render

SpecReply == Init /\ [][NextReply]_vars

----------------------------------------------------------------------------
(* The unread specification: counts, the active conversation, the page *)

MaxUnread == 3

UnreadChats == {NoChat, ChannelChat(0), DmChat("b")}
UnreadKeys == {"channel:0", "dm:b"}

\* incrementUnread of the store
IncrementUnread ==
    /\ unreadCount < MaxUnread
    /\ unreadCount' = incrementUnread(unreadCount, unreadPerChat)[1]
    /\ unreadPerChat' = incrementUnread(unreadCount, unreadPerChat)[2]
    /\ incremented' = TRUE
    /\ last' = [op |-> "incrementUnread"]
    /\ UNCHANGED <<trace, io, isPageActive, calls, status, messages, nodes, earlyAck, crossed, view>>

\* resetUnread of the store
ResetUnread ==
    /\ unreadCount' = resetUnread(unreadCount, unreadPerChat)[1]
    /\ unreadPerChat' = resetUnread(unreadCount, unreadPerChat)[2]
    /\ calls' = <<>>
    /\ last' = [op |-> "resetUnread"]
    /\ UNCHANGED <<trace, io, isPageActive, incremented, status, messages, nodes, earlyAck, crossed, view>>

\* incrementUnreadForChat of the store, for a message of the conversation
IncrementUnreadForChat(K) ==
    \E key \in K :
        /\ unreadCount < MaxUnread
        /\ unreadCount' = incrementUnreadForChat(unreadCount, unreadPerChat, key)[1]
        /\ unreadPerChat' = incrementUnreadForChat(unreadCount, unreadPerChat, key)[2]
        /\ calls' = Spread(calls, [k \in {key} |-> IF key \in DOMAIN calls THEN calls[key] + 1 ELSE 1])
        /\ last' = [op |-> "incrementUnreadForChat", chatKey |-> key]
        /\ UNCHANGED <<trace, io, isPageActive, incremented, status, messages, nodes, earlyAck, crossed, view>>

\* updateVisibility: the page is shown or hidden, gains or loses the focus;
\* ChatArea renders with the new isPageActive and its effect runs
UpdateVisibility ==
    \E isVisible \in BOOLEAN :
        /\ isPageActive' = isVisible
        /\ RunEffect(resetUnreadEffect(isVisible # isPageActive,
                                       chatKey(currentChat), isVisible))
        /\ last' = [op |-> "updateVisibility", isVisible |-> isVisible,
                    reset |-> resetUnreadEffect(isVisible # isPageActive,
                                                chatKey(currentChat), isVisible),
                    n |-> getUnreadForChat(calls, chatKey(currentChat))]
        /\ UNCHANGED <<trace, io, incremented, status, messages, nodes, earlyAck, crossed, view>>

NextUnread ==
    \/ IncrementUnread
    \/ ResetUnread
    \/ IncrementUnreadForChat(UnreadKeys)
    \/ SetCurrentChat(UnreadChats)
    \/ UpdateVisibility

SpecUnread == Init /\ [][NextUnread]_vars

----------------------------------------------------------------------------
(* The session specification: requests to the transport and their responses *)

\* at most MaxRequests requests await their response, and at most as many
\* send requests are issued in all
MaxRequests == 2

\* a list without its i-th element
Remove(s, i) == SubSeq(s, 1, i - 1) \o SubSeq(s, i + 1, Len(s))

\* the packet id the transport answers the n-th send request with: the
\* numbers 0, 7, 14, ...
TransportPacketId(n) == 7 * (n - 1)

\* handleSend returns at once without trimming the text first
handleSendReturns_NoTrim(text, chat) == text = <<>> \/ chat = NoChat

\* handleSend: `if (!text.trim() || !currentChat) return`
handleSendReturns(text, chat) == Trim(text) = <<>> \/ chat = NoChat

\* a rejected disconnect taken for a disconnection
statusAfterMutation_RejectDisconnects(st, request, ok) ==
    IF request.kind = "disconnect" /\ ~ok THEN [connected |-> FALSE] ELSE st

\* the status after the mutation of a request settled, resolved (ok) or
\* rejected: no mutation calls setStatus
statusAfterMutation(st, request, ok) == st

\* a mutationFn that adds the local record of a send whose request failed
messagesAfterThrow_AddsRecord(msgs, request) ==
    IF request.kind = "send"
    THEN addMessage(msgs, LocalRecord(request.status, request.packet_id, request.data, Now))
    ELSE msgs

\* the message list after fetchApi threw in a mutationFn: the exception leaves
\* mutationFn, and in useSendMessage the addMessage after the await is not reached
messagesAfterThrow(msgs, request) == msgs

\* handleSend of ChatArea with the text of the input and the message replied to
HandleSend(T, R) ==
    \E text \in T, replyId \in R :
        /\ IF handleSendReturns(text, currentChat)
           THEN UNCHANGED io
           ELSE /\ Len(requests) < MaxRequests
                /\ sendCount < MaxRequests
                /\ sendCount' = sendCount + 1
                /\ requests' = Append(requests,
                       [kind      |-> "send",
                        data      |-> HandleSendData(currentChat, Trim(text), replyId),
                        status    |-> status,
                        packet_id |-> TransportPacketId(sendCount + 1)])
        /\ last' = [op |-> "handleSend", text |-> text]
        /\ UNCHANGED <<trace, status, messages, nodes, earlyAck, crossed, view, unread>>

\* handleConnect of ConnectionPanel: connect.mutate({ type, address })
HandleConnect ==
    /\ Len(requests) < MaxRequests
    /\ requests' = Append(requests, [kind |-> "connect"])
    /\ last' = [op |-> "handleConnect"]
    /\ UNCHANGED <<trace, sendCount, status, messages, nodes, earlyAck, crossed, view, unread>>

\* handleDisconnect of ConnectionPanel: disconnect.mutate()
HandleDisconnect ==
    /\ Len(requests) < MaxRequests
    /\ requests' = Append(requests, [kind |-> "disconnect"])
    /\ last' = [op |-> "handleDisconnect"]
    /\ UNCHANGED <<trace, sendCount, status, messages, nodes, earlyAck, crossed, view, unread>>

\* the transport answers a request: fetchApi returns and the mutation goes on;
\* useSendMessage adds the local record, with the status its closure holds
Resolve ==
    \E i \in 1..Len(requests) :
        LET request == requests[i]
        IN /\ requests' = Remove(requests, i)
           /\ status' = statusAfterMutation(status, request, TRUE)
           /\ IF request.kind = "send"
              THEN /\ Len(addMessage(messages,
                          LocalRecord(request.status, request.packet_id, request.data, Now)))
                        <= MaxMessages
                   /\ messages' = addMessage(messages,
                          LocalRecord(request.status, request.packet_id, request.data, Now))
                   /\ display' = NotRendered
                   /\ earlyAck' = earlyAck \ StoredPacketIds(messages')
              ELSE UNCHANGED <<messages, display, earlyAck>>
           /\ last' = [op |-> "resolve", request |-> request,
                       echoed |-> (/\ request.kind = "send"
                                   /\ request.packet_id \in StoredPacketIds(messages))]
           /\ UNCHANGED <<trace, sendCount, nodes, crossed, currentChat, unread>>

\* the transport rejects a request: fetchApi throws and the mutation ends
Reject ==
    \E i \in 1..Len(requests) :
        /\ requests' = Remove(requests, i)
        /\ status' = statusAfterMutation(status, requests[i], FALSE)
        /\ messages' = messagesAfterThrow(messages, requests[i])
        /\ last' = [op |-> "reject", request |-> requests[i]]
        /\ UNCHANGED <<trace, sendCount, nodes, earlyAck, crossed, view, unread>>

\* setStatus of the store, with the status the transport pushes.  No timeout is
\* cleared; history: the timeouts pending when the connection is lost are marked
SetStatus(S) ==
    \E st \in S :
        /\ status' = st
        /\ timers' = IF status.connected /\ ~st.connected
                     THEN { [t EXCEPT !.cut = TRUE] : t \in timers }
                     ELSE timers
        /\ last' = [op |-> "setStatus", status |-> st]
        /\ UNCHANGED <<selectedNode, tracerouteResult, tracerouteTimeout, timeoutRef,
                       handles, tracedNode, awaited, messages, nodes, earlyAck, crossed, view, unread, io>>

\* the statuses of the model: disconnected, and connected as node "me"
Statuses ==
    { [connected |-> FALSE],
      [connected |-> TRUE, my_node_id |-> "me"] }

\* the texts of the input: a word, nothing, spaces
InputTexts == {Hi, <<>>, <<Space, Space>>}

SessionChats == {NoChat, DmChat("b")}

NextSession ==
    \/ HandleSend(InputTexts, {Undefined})
    \/ HandleConnect
    \/ HandleDisconnect
    \/ Resolve
    \/ Reject
    \/ SetStatus(Statuses)
    \/ SetCurrentChat(SessionChats)

SpecSession == Init /\ [][NextSession]_vars

----------------------------------------------------------------------------
(* The race specification: the response of a send and its pushed message *)

\* the packet ids of the sends the transport took: those that await their
\* response and those whose local record is stored
SentPacketIds ==
    { requests[i].packet_id : i \in { k \in 1..Len(requests) : requests[k].kind = "send" } }
        \cup { messages[j].packet_id : j \in { k \in 1..Len(messages) : messages[k].is_outgoing } }

\* the id the transport gives the message of a packet: its own, one per packet
EchoId(pid) == pid + 1

\* the transport pushes the message event of a send, with the packet id of
\* the send
Echo ==
    \E pid \in SentPacketIds :
        /\ DoAddMessage("echo", Spread(Message(EchoId(pid), pid, "me", "b", 0, "pending"),
                                        [is_outgoing |-> TRUE]))
        /\ UNCHANGED io

NextRace ==
    \/ SetCurrentChat(SessionChats)
    \/ HandleSend({Hi}, {Undefined})
    \/ Echo
    \/ Resolve
    \/ Reject

SpecRace == Init /\ [][NextRace]_vars

----------------------------------------------------------------------------
(* The trace route specification: NodeInfoPanel *)

\* at most MaxTimeouts timeouts are set in all
MaxTimeouts == 3

\* tracerouteResult && tracerouteResult.from === selectedNode.id
isTracerouteForThisNode_AnyResult(result, node) ==
    result # NoResult

\* tracerouteResult && tracerouteResult.from === selectedNode.id
isTracerouteForThisNode(result, node) ==
    result # NoResult /\ result.from = node.id

\* the callback of the timeout with the result of the store read when it runs
timeoutSetsState_FreshResult(result, node, current) ==
    current = NoResult \/ current.from # node.id

\* the callback of the timeout set by handleTraceroute: whether it calls
\* setTracerouteTimeout(true).  result and node are tracerouteResult and
\* selectedNode of the render handleTraceroute ran in; current is the
\* tracerouteResult of the store when the callback runs, which it does not read
timeoutSetsState(result, node, current) ==
    result = NoResult \/ result.from # node.id

\* the timeout notice is on the screen
NoticePresented ==
    /\ selectedNode # NoNode
    /\ tracerouteTimeout
    /\ ~isTracerouteForThisNode(tracerouteResult, selectedNode)

\* the trace result is on the screen
ResultPresented ==
    /\ selectedNode # NoNode
    /\ isTracerouteForThisNode(tracerouteResult, selectedNode)

\* clearTimeout: the pending timeouts without the one of the handle, if it is
\* still pending
clearTimeout(ts, handle) == { t \in ts : t.handle # handle }

\* history: the pending timeouts, those of a request for the node the result
\* comes from marked as matched
Matched(ts, result) ==
    { IF result # NoResult /\ result.from = t.selectedNode.id
      THEN [t EXCEPT !.matched = TRUE] ELSE t : t \in ts }

\* handleTraceroute that leaves the stored trace result as it is
resultAfterRequest_Kept(result) == result

\* the stored trace result after handleTraceroute: setTracerouteResult(null)
resultAfterRequest(result) == NoResult

\* handleTraceroute that sets its timeout without clearing the one it set before
handleTracerouteTimers_NoClear(ts, ref, timeout) == ts \cup {timeout}

\* the pending timeouts after handleTraceroute cleared the timeout of
\* timeoutRef.current and set a new one
handleTracerouteTimers(ts, ref, timeout) == clearTimeout(ts, ref) \cup {timeout}

\* the effect on a result that clears the timeout and leaves the timeout state
ResultEffect_KeepsTimeoutState(result, node) ==
    IF isTracerouteForThisNode(result, node)
    THEN /\ timers' = clearTimeout(timers, timeoutRef)
         /\ timeoutRef' = NoTimer
         /\ UNCHANGED tracerouteTimeout
    ELSE /\ timers' = Matched(timers, result)
         /\ UNCHANGED <<timeoutRef, tracerouteTimeout>>

\* the effect of NodeInfoPanel on tracerouteResult and selectedNode.id, run
\* after a render in which one of them changed: a result for the selected node
\* clears the timeout and the timeout state
ResultEffect(result, node) ==
    IF isTracerouteForThisNode(result, node)
    THEN /\ timers' = clearTimeout(timers, timeoutRef)
         /\ timeoutRef' = NoTimer
         /\ tracerouteTimeout' = FALSE
    ELSE /\ timers' = Matched(timers, result)
         /\ UNCHANGED <<timeoutRef, tracerouteTimeout>>

\* setSelectedNode: a node is selected, or the panel is closed.  The panel is
\* mounted while a node is selected; it is unmounted with the timeout of its
\* timeoutRef cleared, and mounted with no timeout and tracerouteTimeout false
SetSelectedNode(N) ==
    \E node \in N :
        /\ selectedNode' = node
        /\ IF node = NoNode \/ selectedNode = NoNode
           THEN /\ timers' = clearTimeout(timers, timeoutRef)
                /\ timeoutRef' = NoTimer
                /\ tracerouteTimeout' = FALSE
           ELSE IF node.id # selectedNode.id
           THEN ResultEffect(tracerouteResult, node)
           ELSE UNCHANGED <<timers, timeoutRef, tracerouteTimeout>>
        /\ last' = [op |-> "setSelectedNode", node |-> node]
        /\ UNCHANGED <<tracerouteResult, handles, tracedNode, awaited, status, messages,
                       nodes, earlyAck, crossed, view, unread, io>>

\* handleTraceroute of NodeInfoPanel; its button is disabled while the
\* trace route request awaits its response
HandleTraceroute ==
    /\ selectedNode # NoNode
    /\ TruthyStr(StrField(selectedNode, "id"))
    /\ \A i \in 1..Len(requests) : requests[i].kind # "traceroute"
    /\ Len(requests) < MaxRequests
    /\ handles < MaxTimeouts
    /\ tracerouteResult' = resultAfterRequest(tracerouteResult)
    /\ tracerouteTimeout' = FALSE
    /\ requests' = Append(requests, [kind |-> "traceroute", nodeId |-> selectedNode.id])
    /\ tracedNode' = selectedNode.id
    /\ awaited' = awaited \cup {selectedNode.id}
    /\ handles' = handles + 1
    /\ timers' = handleTracerouteTimers(timers, timeoutRef,
                     [handle           |-> handles + 1,
                      tracerouteResult |-> tracerouteResult,
                      selectedNode     |-> selectedNode,
                      matched          |-> FALSE,
                      cut              |-> FALSE])
    /\ timeoutRef' = handles + 1
    /\ last' = [op |-> "handleTraceroute", earlier |-> tracerouteResult,
                pending |-> timers # {}]
    /\ UNCHANGED <<selectedNode, sendCount, status, messages, nodes, earlyAck, crossed,
                   view, unread>>

\* setTracerouteResult of the store with a pushed trace result
SetTracerouteResult(R) ==
    \E result \in R :
        /\ tracerouteResult' = result
        /\ IF selectedNode # NoNode
           THEN ResultEffect(result, selectedNode)
           ELSE UNCHANGED <<timers, timeoutRef, tracerouteTimeout>>
        /\ awaited' = awaited \ {result.from}
        /\ last' = [op |-> "setTracerouteResult", result |-> result,
                    late |-> tracerouteTimeout]
        /\ UNCHANGED <<selectedNode, handles, tracedNode, status, messages, nodes, earlyAck, crossed,
                       view, unread, io>>

\* the 60 s of a pending timeout have passed and its callback runs
TimeoutFires ==
    \E t \in timers :
        /\ tracerouteTimeout' =
               IF timeoutSetsState(t.tracerouteResult, t.selectedNode, tracerouteResult)
               THEN TRUE ELSE tracerouteTimeout
        /\ timers' = timers \ {t}
        /\ last' = [op |-> "timeoutFires", earlier |-> t.tracerouteResult,
                    matched |-> t.matched, cut |-> t.cut,
                    latest |-> (t.handle = handles)]
        /\ UNCHANGED <<selectedNode, tracerouteResult, timeoutRef, handles, tracedNode,
                       awaited, status,
                       messages, nodes, earlyAck, crossed, view, unread, io>>

\* the nodes the panel is opened for, and the panel closed
TraceNodes == {NoNode, [id |-> "a", num |-> 1], [id |-> "b", num |-> 2]}

\* the trace results the transport pushes
TraceResults == {[from |-> "a"], [from |-> "b"]}

NextTrace ==
    \/ SetSelectedNode(TraceNodes)
    \/ HandleTraceroute
    \/ SetTracerouteResult(TraceResults)
    \/ TimeoutFires
    \/ SetStatus(Statuses)
    \/ Resolve
    \/ Reject

SpecTrace == Init /\ [][NextTrace]_vars

----------------------------------------------------------------------------
(* The disconnect specification: a session that fills the store and ends *)

\* what the transport pushes during the session
SessionEvents ==
    { Message(1, 7, "a", Nil, 0, "received"), Message(2, Undefined, "b", Nil, 0, "received") }
SessionNodes == { [id |-> "a", num |-> 1, user |-> "u1"] }
SessionResults == { [from |-> "a"] }

NextDisconnect ==
    \/ SetStatus(Statuses)
    \/ AddMessage(SessionEvents)
    \/ UpdateMessageAck
    \/ UpdateNodes(SessionNodes)
    \/ SetCurrentChat({ChannelChat(0)})
    \/ SetTracerouteResult(SessionResults)
    \/ HandleDisconnect
    \/ Resolve
    \/ Reject

SpecDisconnect == Init /\ [][NextDisconnect]_vars

----------------------------------------------------------------------------
(* Claims about the message list *)

\* the last operation was an addMessage call (pushed event or local record)
LastAdded == last.op \in {"addMessage", "sendMessage"}

\* C1: after any sequence of addMessage, setMessages and updateMessageAck the
\* list holds at most one message for each packet_id that is present, for
\* every numeric packet_id value (0 included).
C1_OnePerPacketId ==
    \A i, j \in 1..Len(messages) :
        (i # j /\ NumField(messages[i], "packet_id") # Undefined)
            => NumField(messages[i], "packet_id") # NumField(messages[j], "packet_id")

\* C2: addMessage is idempotent for a message carrying a packet_id: the same
\* event applied a second time, right after the first, leaves the list as the
\* first application left it.
C2_AddMessageIdempotent ==
    [][(/\ last'.op \in {"addMessage", "sendMessage"}
        /\ last'.again
        /\ NumField(last'.message, "packet_id") # Undefined)
            => messages' = messages]_vars

\* C2 witness: an event with a packet_id was applied twice in a row and the
\* list holds exactly one message bearing that packet_id.
C2_Witness ==
    /\ LastAdded
    /\ last.again
    /\ NumField(last.message, "packet_id") # Undefined
    /\ Cardinality({ i \in 1..Len(messages) :
            NumField(messages[i], "packet_id") = NumField(last.message, "packet_id") }) = 1

\* C3: when an ack for packet_id P was applied while no stored message bore P
\* and the message bearing P is then added, the stored message's ack_status
\* is not pending.
C3_EarlyAckKept ==
    (LastAdded /\ last.early)
        => \A i \in 1..Len(messages) :
              NumField(messages[i], "packet_id") = NumField(last.message, "packet_id")
                  => messages[i].ack_status # "pending"

\* C4: once a stored message has ack_status ack, a later message event for the
\* same packet_id (the local record of useSendMessage included) never turns
\* its ack_status back to pending.
C4_AckNeverRegresses ==
    [][\A i \in 1..Len(messages) :
        (/\ messages[i].ack_status = "ack"
         /\ last'.op \in {"addMessage", "sendMessage"}
         /\ NumField(messages[i], "packet_id") # Undefined
         /\ NumField(last'.message, "packet_id") = NumField(messages[i], "packet_id"))
            => (i <= Len(messages') /\ messages'[i].ack_status # "pending")]_vars

\* message m is still stored in msgs: a message there has its id or its packet_id
Survives(m, msgs) ==
    \E j \in 1..Len(msgs) :
        \/ NumField(msgs[j], "id") = NumField(m, "id")
        \/ (NumField(m, "packet_id") # Undefined
            /\ NumField(msgs[j], "packet_id") = NumField(m, "packet_id"))

\* C5: applying a snapshot never removes a stored message, and no store
\* operation deletes a stored message.
C5_NeverRemoved ==
    [][\A i \in 1..Len(messages) : Survives(messages[i], messages')]_vars

\* C16: when addMessage receives a message event whose packet_id is that of a
\* stored message, the list keeps its length, the record bearing the packet_id
\* keeps its position, and every other stored message is unchanged.
C16_UpdatedInPlace ==
    [][(/\ last'.op = "addMessage"
        /\ NumField(last'.message, "packet_id") # Undefined
        /\ NumField(last'.message, "packet_id") \in StoredPacketIds(messages))
           => /\ Len(messages') = Len(messages)
              /\ \E p \in 1..Len(messages) :
                     /\ NumField(messages[p], "packet_id") = NumField(last'.message, "packet_id")
                     /\ NumField(messages'[p], "packet_id") = NumField(last'.message, "packet_id")
                     /\ \A j \in 1..Len(messages) \ {p} : messages'[j] = messages[j]]_vars

\* C25: updateMessageAck with a packet_id no stored message bears leaves the
\* message list as it was: the same messages with the same fields in the same
\* order.
C25_UnmatchedAckChangesNothing ==
    [][(/\ last'.op = "updateMessageAck"
        /\ last'.packetId \notin StoredPacketIds(messages))
           => messages' = messages]_vars

\* C25 witness: an ack for packet_id 7 was applied to a list that holds
\* messages, one without packet_id among them, and none with packet_id 7.
C25_Witness ==
    /\ last.op = "updateMessageAck"
    /\ last.packetId = 7
    /\ Len(messages) >= 2
    /\ 7 \notin StoredPacketIds(messages)
    /\ Undefined \in StoredPacketIds(messages)

\* the fields of a message other than ack_status
OtherFields(m) == [k \in (DOMAIN m) \ {"ack_status"} |-> m[k]]

\* C26: updateMessageAck(P, s) sets ack_status to s on the stored messages
\* bearing packet_id P and changes nothing else: their other fields, the other
\* messages, the number and order of the messages, and the status, the nodes,
\* the selected conversation and node, the trace result and the unread counters.
C26_AckChangesOnlyAckStatus ==
    [][last'.op = "updateMessageAck"
           => (/\ Len(messages') = Len(messages)
               /\ \A i \in 1..Len(messages) :
                      IF NumField(messages[i], "packet_id") = last'.packetId
                      THEN /\ OtherFields(messages'[i]) = OtherFields(messages[i])
                           /\ messages'[i].ack_status = last'.ackStatus
                      ELSE messages'[i] = messages[i]
               /\ UNCHANGED <<status, nodes, currentChat, selectedNode,
                              tracerouteResult, unreadCount, unreadPerChat>>)]_vars

\* C26 witness: in a store with a node, a selected conversation and a trace
\* result, an ack was applied to a list of two messages of which one bears its
\* packet_id; that one has the new status and the other one its own.
C26_Witness ==
    /\ last.op = "updateMessageAck"
    /\ last.ackStatus = "ack"
    /\ Len(messages) = 2
    /\ \E i, j \in 1..2 :
           /\ NumField(messages[i], "packet_id") = last.packetId
           /\ messages[i].ack_status = "ack"
           /\ messages[i].sender = "a"
           /\ NumField(messages[j], "packet_id") # last.packetId
           /\ messages[j].ack_status = "received"
    /\ nodes # <<>>
    /\ currentChat # NoChat
    /\ tracerouteResult # NoResult

\* an addMessage step whose message has no packet_id, or one that no stored
\* message bears
UnmatchedAdd ==
    /\ last'.op \in {"addMessage", "sendMessage"}
    /\ \/ NumField(last'.message, "packet_id") = Undefined
       \/ NumField(last'.message, "packet_id") \notin StoredPacketIds(messages)

\* the ids of the stored messages
StoredIds(msgs) == { msgs[i].id : i \in 1..Len(msgs) }

\* C27: addMessage with a message whose packet_id is absent or borne by no
\* stored message leaves the store as it was when the id of the message is
\* that of a stored one, and otherwise appends the message at the end and
\* changes nothing else.
C27_DiscardOrAppend ==
    [][UnmatchedAdd
           => (/\ messages' = IF last'.message.id \in StoredIds(messages)
                              THEN messages
                              ELSE Append(messages, last'.message)
               /\ UNCHANGED <<status, nodes, currentChat, selectedNode,
                              tracerouteResult, unreadCount, unreadPerChat>>)]_vars

\* C27 witness: an event with packet_id 7, which no stored message bears, and
\* the id of a stored message whose fields are not those of the event was
\* applied, and the stored message is what it was.
C27_Witness ==
    /\ last.op = "addMessage"
    /\ last.message.packet_id = 7
    /\ 7 \notin StoredPacketIds(messages)
    /\ \E i \in 1..Len(messages) :
           /\ messages[i].id = last.message.id
           /\ messages[i] # last.message

\* C27 witness of the append: an event without packet_id and with a new id is
\* the last of a list of more than one message.
C27_WitnessAppended ==
    /\ last.op = "addMessage"
    /\ last.message.packet_id = Undefined
    /\ Len(messages) >= 2
    /\ messages[Len(messages)] = last.message
    /\ \A i \in 1..(Len(messages) - 1) : messages[i].id # last.message.id

\* the fields of a message that hold a number, and those that hold a string
NumericFields == {"id", "packet_id", "channel", "reply_id"}
StringFields == {"sender", "receiver", "ack_status"}

\* the event does not carry field k: the key is missing, or its value is null
\* or undefined
NotCarried(event, k) ==
    \/ k \notin DOMAIN event
    \/ k \in NumericFields /\ event[k] = Undefined
    \/ k \in StringFields /\ event[k] = Nil

\* m.k as it reads: undefined or null when the key is missing
FieldOf(m, k) ==
    IF k \in DOMAIN m THEN m[k] ELSE IF k \in StringFields THEN Nil ELSE Undefined

\* the index of the stored message an event is merged into, 0 when there is none
MergedInto(msgs, event) ==
    IF TruthyNum(NumField(event, "packet_id"))
    THEN FindIndex({ i \in 1..Len(msgs) :
                       NumField(msgs[i], "packet_id") = event.packet_id })
    ELSE 0

\* C28: when a message event is merged into a stored message by packet_id,
\* every field the event carries has the event's value afterwards, and every
\* field it does not carry (missing, null or undefined) has the stored value.
C28_MergeKeepsUncarriedFields ==
    [][(/\ last'.op \in {"addMessage", "sendMessage"}
        /\ MergedInto(messages, last'.message) > 0)
           => LET i == MergedInto(messages, last'.message)
                  event == last'.message
              IN  \A k \in (DOMAIN messages[i]) \cup (DOMAIN event) :
                      FieldOf(messages'[i], k) = IF NotCarried(event, k)
                                                 THEN FieldOf(messages[i], k)
                                                 ELSE event[k]]_vars

----------------------------------------------------------------------------
(* Claims about the node list *)

\* the update carries no value for field f: the key is missing, null or undefined
Absent(node, f) == StrField(node, f) = Nil

\* C6: a node update that carries deviceMetrics but no position (missing,
\* null or undefined) leaves the stored position of every node as it was.
C6_MetricsKeepPosition ==
    [][(/\ last'.op = "updateNode"
        /\ ~Absent(last'.node, "deviceMetrics")
        /\ Absent(last'.node, "position"))
            => \A i \in 1..Len(nodes) :
                  /\ ("position" \in DOMAIN nodes'[i]) = ("position" \in DOMAIN nodes[i])
                  /\ StrField(nodes'[i], "position") = StrField(nodes[i], "position")]_vars

\* C6 witness: a metrics update with a null position was merged into a node
\* whose position is known.
C6_Witness ==
    /\ last.op = "updateNode"
    /\ "position" \in DOMAIN last.node
    /\ last.node.position = Nil
    /\ ~Absent(last.node, "deviceMetrics")
    /\ \E i \in 1..Len(nodes) :
          /\ nodes[i].id = last.node.id
          /\ nodes[i].num = last.node.num
          /\ ~Absent(nodes[i], "position")
          /\ StrField(nodes[i], "deviceMetrics") = last.node.deviceMetrics

\* C7: for every node field, updateNode never turns a known value of a stored
\* node into an absent one: a field absent in the update keeps its stored value.
C7_AbsentKeepsKnown ==
    [][last'.op = "updateNode"
        => \A i \in 1..Len(nodes), f \in NodeFields :
              (Absent(last'.node, f) /\ ~Absent(nodes[i], f))
                  => StrField(nodes'[i], f) = StrField(nodes[i], f)]_vars

\* C8: when one stored node matches the update's id and a different stored
\* node matches its num, the update is merged into the node matching by id
\* and the node matching by num is left as it was.
C8_LookupByIdFirst ==
    [][last'.op = "updateNode"
        => \A i, j \in 1..Len(nodes) :
              (/\ i # j
               /\ nodes[i].id = last'.node.id
               /\ nodes[i].num # last'.node.num
               /\ nodes[j].num = last'.node.num
               /\ nodes[j].id # last'.node.id
               /\ \A k \in 1..(i - 1) : nodes[k].id # last'.node.id)
                  => (nodes'[i].num = last'.node.num /\ nodes'[j] = nodes[j])]_vars

\* no two stored nodes share an id, no two share a num
UniqueNodes(ns) ==
    \A i, j \in 1..Len(ns) : i # j => (ns[i].id # ns[j].id /\ ns[i].num # ns[j].num)

\* C9 as stated: after any sequence of updateNode calls from the empty list no
\* two stored nodes share an id and no two share a num.
C9_UniqueIdAndNum == UniqueNodes(nodes)

\* C9 amended: the same, for sequences in which no update's id matched one
\* stored node while its num matched a different stored node.
C9_UniqueUnlessCrossed == ~crossed => UniqueNodes(nodes)

\* C9 witness: two nodes are stored, no update crossed two nodes, and the last
\* update was merged into a stored node, which keeps a field the update did
\* not carry.
C9_Witness ==
    /\ ~crossed
    /\ Len(nodes) = 2
    /\ last.op = "updateNode"
    /\ \E i \in 1..2 :
          /\ nodes[i].id = last.node.id
          /\ nodes[i].num = last.node.num
          /\ (DOMAIN nodes[i]) \ (DOMAIN last.node) # {}

----------------------------------------------------------------------------
(* Claims about the conversation filter *)

\* the elements of a list
Range(s) == { s[i] : i \in 1..Len(s) }

\* a receiver that names a peer: present, not empty, not a broadcast sentinel
Concrete(receiver) == receiver \notin {Nil, "", "^all", "broadcast"}

\* C10: every stored message with channel 0 and a concrete non-broadcast
\* receiver R passes the filter of the direct conversation with R and does not
\* pass the filter of the channel-0 conversation.
C10_DirectNotChannel ==
    \A i \in 1..Len(messages) :
        (messages[i].channel = 0 /\ Concrete(messages[i].receiver))
            => /\ messages[i] \in Range(filteredMessages(messages, DmChat(messages[i].receiver)))
               /\ messages[i] \notin Range(filteredMessages(messages, ChannelChat(0)))

\* C10 witness: a direct message carried on channel 0 and a broadcast message
\* of channel 0 are both stored, and each filter keeps exactly one of them.
C10_Witness ==
    \E i, j \in 1..Len(messages) :
        /\ messages[i].channel = 0
        /\ Concrete(messages[i].receiver)
        /\ messages[j].channel = 0
        /\ messages[j].receiver = "^all"
        /\ Len(messages) = 2
        /\ filteredMessages(messages, DmChat(messages[i].receiver)) = <<messages[i]>>
        /\ filteredMessages(messages, ChannelChat(0)) = <<messages[j]>>

----------------------------------------------------------------------------
(* Claims about the projection *)

\* a message the projection may treat as a reaction: its trimmed text is emoji-only
IsReaction(m) == EMOJI_ONLY_REGEX(Trim(m.text))

\* message i of the list comes before message j in timestamp order, messages
\* of equal time in their order in the list
Before(f, i, j) ==
    \/ getTime(f[i]) < getTime(f[j])
    \/ getTime(f[i]) = getTime(f[j]) /\ i < j

\* message i is retained: it is not emoji-only, or nothing comes before it
Retained(f, i) ==
    \/ ~IsReaction(f[i])
    \/ \A j \in 1..Len(f) : ~Before(f, j, i)

\* the closest retained message before message i in timestamp order
Target(f, i) ==
    CHOOSE j \in 1..Len(f) :
        /\ Retained(f, j)
        /\ Before(f, j, i)
        /\ \A k \in 1..Len(f) :
               (Retained(f, k) /\ Before(f, k, i)) => (k = j \/ Before(f, k, j))

\* the message is displayed as a message of its own
Shown(p, m) == \E k \in 1..Len(p) : p[k].id = m.id

\* the message's emoji and sender are among the reactions of the displayed target
Reacted(p, m, target) ==
    \E k \in 1..Len(p) :
        /\ p[k].id = target.id
        /\ Trim(m.text) \in DOMAIN p[k].reactions
        /\ m.sender \in Range(p[k].reactions[Trim(m.text)])

LeadingReaction(f, i) ==
    /\ IsReaction(f[i])
    /\ \A j \in 1..Len(f) : ~Before(f, j, i)

C29_DisplayInTimestampOrder ==
    display.rendered
        => \A i, j \in 1..Len(display.processed) :
               i < j => parseTimestamp(display.processed[i].timestamp)
                            <= parseTimestamp(display.processed[j].timestamp)

\* C30: in every displayed message the list of senders of each emoji holds
\* no sender twice.
C30_ReactionSendersUnique ==
    display.rendered
        => \A i \in 1..Len(display.processed) :
               \A e \in DOMAIN display.processed[i].reactions :
                   LET senders == display.processed[i].reactions[e]
                   IN  \A k, l \in 1..Len(senders) : k # l => senders[k] # senders[l]

\* C30 witness: sender a sent the same emoji twice after a message, once with
\* a space before it, and is once in the list of that emoji on the message.
C30_Witness ==
    /\ display.rendered
    /\ Len(display.filtered) = 3
    /\ Cardinality({ i \in 1..3 : /\ display.filtered[i].sender = "a"
                                  /\ Trim(display.filtered[i].text) = <<Grin>> }) = 2
    /\ Len(display.processed) = 1
    /\ display.processed[1].reactions = [e \in {<<Grin>>} |-> <<"a">>]

\* C31: rendering a conversation leaves the store as it was: the same
\* messages in the same order, each with the fields it had, no reactions
\* field among them, the emoji-only messages included.
C31_RenderKeepsStore ==
    [][last'.op = "render"
           => (/\ messages' = messages
               /\ UNCHANGED <<status, nodes, currentChat, unreadCount, unreadPerChat>>)]_vars

\* C31 witness: a conversation was rendered with a reaction folded into a
\* displayed message; the emoji-only message is stored, and no stored message
\* has a reactions field.
C31_Witness ==
    /\ last.op = "render"
    /\ Len(display.processed) < Len(display.filtered)
    /\ \E k \in 1..Len(display.processed) : DOMAIN display.processed[k].reactions # {}
    /\ \E i \in 1..Len(messages) : EMOJI_ONLY_REGEX(Trim(messages[i].text))
    /\ \A i \in 1..Len(messages) : "reactions" \notin DOMAIN messages[i]

\* the stored messages whose packet_id or id is the number n
Referenced(msgs, n) ==
    { i \in 1..Len(msgs) : NumField(msgs[i], "packet_id") = n \/ NumField(msgs[i], "id") = n }

\* C32: when a conversation is rendered, a displayed message with a reply_id
\* that no stored message has as packet_id or id gets no quoted message, a
\* displayed message with a reply_id that a stored message has gets such a
\* message, and the store is left as it was.
C32_ReplyResolved ==
    [][last'.op = "render"
           => (/\ messages' = messages
               /\ \A k \in 1..Len(display'.processed) :
                      LET reply_id == NumField(display'.processed[k], "reply_id")
                      IN  reply_id # Undefined
                              => IF Referenced(messages, reply_id) = {}
                                 THEN display'.replied[k] = 0
                                 ELSE display'.replied[k] \in Referenced(messages, reply_id))]_vars

\* the orders of n messages
Orders(n) == { p \in [1..n -> 1..n] : \A i, j \in 1..n : i # j => p[i] # p[j] }

\* the messages in the order p
Reordered(msgs, p) == [i \in 1..Len(msgs) |-> msgs[p[i]]]

\* the timestamps of the messages denote pairwise distinct times
DistinctTimes(msgs) ==
    \A i, j \in 1..Len(msgs) :
        i # j => parseTimestamp(msgs[i].timestamp) # parseTimestamp(msgs[j].timestamp)

\* C38: when the timestamps of the stored messages are pairwise distinct, the
\* displayed messages and their reactions are the same for every order the
\* messages could have been added in.
C38_ProjectionOrderFree ==
    (display.rendered /\ DistinctTimes(messages))
        => \A p \in Orders(Len(messages)) :
               processedMessages(filteredMessages(Reordered(messages, p), currentChat))
                   = display.processed

----------------------------------------------------------------------------
(* Claims about the unread counts *)

\* the number of incrementUnreadForChat calls for the key since its last reset
Calls(c, key) == IF key \in DOMAIN c THEN c[key] ELSE 0

\* the last step was a render of ChatArea whose effect called
\* resetUnreadForChat with the key
WasReset(l, key) ==
    /\ l.op \in {"setCurrentChat", "updateVisibility"}
    /\ l.reset = key

\* C13: a conversation's count is the number N of incrementUnreadForChat calls
\* made for its key since the key had no unread; a resetUnreadForChat for the
\* key makes its count 0, lowers unreadCount by exactly N and leaves the count
\* of every other conversation as it was.
C13_CountThenReset ==
    [][\A key \in UnreadKeys :
           /\ getUnreadForChat(unreadPerChat', key) = Calls(calls', key)
           /\ WasReset(last', key)
                  => /\ getUnreadForChat(unreadPerChat', key) = 0
                     /\ unreadCount' = unreadCount - Calls(calls, key)
                     /\ \A other \in UnreadKeys \ {key} :
                            getUnreadForChat(unreadPerChat', other)
                                = getUnreadForChat(unreadPerChat, other)]_vars

\* C13 witness: a conversation that had two increments was reset by
\* ChatArea's effect: its count is 0, and the other conversation keeps its one
\* unread, which is all unreadCount still counts.
C13_Witness ==
    \E key \in UnreadKeys :
        /\ WasReset(last, key)
        /\ last.n = 2
        /\ getUnreadForChat(unreadPerChat, key) = 0
        /\ \E other \in UnreadKeys \ {key} :
               getUnreadForChat(unreadPerChat, other) = 1
        /\ unreadCount = 1

\* C14: selecting a conversation while the page is in the background changes
\* no unread count; when the page comes to the foreground with a conversation
\* active, and when a conversation is selected while the page is in the
\* foreground, that conversation's count becomes 0; and a render of ChatArea
\* zeroes the count of no conversation but the active one of a foreground page.
C14_ZeroedWhenActiveAndForeground ==
    [][/\ (last'.op = "setCurrentChat" /\ ~isPageActive)
            => /\ unreadPerChat' = unreadPerChat
               /\ unreadCount' = unreadCount
       /\ (last'.op = "updateVisibility" /\ ~isPageActive /\ isPageActive'
                /\ currentChat # NoChat)
            => getUnreadForChat(unreadPerChat', chatKey(currentChat)) = 0
       /\ (last'.op = "setCurrentChat" /\ isPageActive
                /\ currentChat' # NoChat /\ currentChat' # currentChat)
            => getUnreadForChat(unreadPerChat', chatKey(currentChat')) = 0
       /\ last'.op \in {"setCurrentChat", "updateVisibility"}
            => \A key \in UnreadKeys :
                   (/\ getUnreadForChat(unreadPerChat, key) > 0
                    /\ getUnreadForChat(unreadPerChat', key) = 0)
                       => /\ currentChat' # NoChat
                          /\ key = chatKey(currentChat')
                          /\ isPageActive']_vars

\* C14 witness: the page came to the foreground with a conversation active
\* that had unread, ChatArea's effect reset it, its count is 0, and the other
\* conversation still has unread.
C14_Witness ==
    /\ last.op = "updateVisibility"
    /\ last.isVisible
    /\ currentChat # NoChat
    /\ last.reset = chatKey(currentChat)
    /\ last.n > 0
    /\ getUnreadForChat(unreadPerChat, chatKey(currentChat)) = 0
    /\ \E other \in UnreadKeys : getUnreadForChat(unreadPerChat, other) > 0

\* the sum of the counts of the conversations
RECURSIVE SumOver(_, _)
SumOver(perChat, keys) ==
    IF keys = {} THEN 0
    ELSE LET key == CHOOSE k \in keys : TRUE
         IN  perChat[key] + SumOver(perChat, keys \ {key})

PerChatTotal == SumOver(unreadPerChat, DOMAIN unreadPerChat)

\* C33: unreadCount is not negative and not less than the sum of the counts
\* of the conversations, and equals that sum as long as incrementUnread has
\* not been called.
C33_TotalCoversPerChat ==
    /\ unreadCount >= 0
    /\ unreadCount >= PerChatTotal
    /\ ~incremented => unreadCount = PerChatTotal

\* C33 witness: after incrementUnread and increments for two conversations
\* one conversation was reset, and the total is above the count that is left.
C33_Witness ==
    /\ incremented
    /\ last.op \in {"setCurrentChat", "updateVisibility"}
    /\ last.reset # ""
    /\ last.n > 0
    /\ PerChatTotal > 0
    /\ unreadCount > PerChatTotal

\* C33 witness without incrementUnread: a conversation of two was reset and
\* the total is the count of the other.
C33_WitnessSum ==
    /\ ~incremented
    /\ last.op \in {"setCurrentChat", "updateVisibility"}
    /\ last.reset # ""
    /\ last.n > 0
    /\ unreadCount > 0
    /\ unreadCount = PerChatTotal

----------------------------------------------------------------------------
(* Claims about requests to the transport *)

\* C15: while a send request awaits the transport's response, the message
\* list holds the local record of that send: an outgoing message with
\* ack_status pending and the text sent.
C15_LocalRecordAtInvocation ==
    \A i \in 1..Len(requests) :
        requests[i].kind = "send"
            => \E j \in 1..Len(messages) :
                   /\ messages[j].is_outgoing
                   /\ messages[j].ack_status = "pending"
                   /\ messages[j].text = requests[i].data.text

\* C17: a handleSend with a text that is empty after trimming, or with no
\* current chat, issues no request and changes nothing in the store.
C17_InvalidSendDoesNothing ==
    [][(/\ last'.op = "handleSend"
        /\ (Trim(last'.text) = <<>> \/ currentChat = NoChat))
           => /\ requests' = requests
              /\ <<status, messages, nodes, currentChat>>'
                     = <<status, messages, nodes, currentChat>>
              /\ <<unreadCount, unreadPerChat>>' = <<unreadCount, unreadPerChat>>]_vars

\* C17 witness: with a conversation open, a stored message and no request
\* under way, handleSend ran with a text of spaces only, and no request is
\* under way.
C17_Witness ==
    /\ last.op = "handleSend"
    /\ last.text # <<>>
    /\ Trim(last.text) = <<>>
    /\ currentChat # NoChat
    /\ status.connected
    /\ Len(messages) = 1
    /\ requests = <<>>

\* C18: in the step that takes the status from connected to disconnected,
\* the node list and the message list become empty and the current chat and
\* the trace result become null.
C18_DisconnectClears ==
    [][(status.connected /\ ~status'.connected)
           => /\ nodes' = <<>>
              /\ messages' = <<>>
              /\ currentChat' = NoChat
              /\ tracerouteResult' = NoResult]_vars

\* C19: a step that issues a connect, disconnect or send request, and the
\* step in which the transport rejects one, leave the connection status as
\* it was.
C19_RejectKeepsStatus ==
    [][last'.op \in {"handleSend", "handleConnect", "handleDisconnect", "reject"}
           => status' = status]_vars

\* C19 witness: the transport rejected a disconnect request, and the status
\* is still connected, with the node's own id.
C19_Witness ==
    /\ last.op = "reject"
    /\ last.request.kind = "disconnect"
    /\ status = [connected |-> TRUE, my_node_id |-> "me"]

\* the stored messages that bear the packet id
RecordsOf(msgs, pid) == { j \in 1..Len(msgs) : NumField(msgs[j], "packet_id") = pid }

\* C34: once the response of a send request or the pushed message of the
\* send has arrived, whichever comes first, and when the other one arrives,
\* the store holds one message with the packet id of the send.
C34_OneRecordPerSend ==
    [][/\ (last'.op = "resolve" /\ last'.request.kind = "send")
           => Cardinality(RecordsOf(messages', last'.request.packet_id)) = 1
       /\ last'.op = "echo"
           => Cardinality(RecordsOf(messages', last'.message.packet_id)) = 1]_vars

\* C37: when the transport rejects a send request, the message list after
\* is the message list before.
C37_RejectedSendAddsNothing ==
    [][(last'.op = "reject" /\ last'.request.kind = "send")
           => messages' = messages]_vars

\* C37 witness: the transport rejected the second send request after it had
\* answered the first, and the list holds the local record of the first alone.
C37_Witness ==
    /\ last.op = "reject"
    /\ last.request.kind = "send"
    /\ Len(messages) = 1
    /\ messages[1].packet_id # last.request.packet_id
    /\ sendCount = 2

----------------------------------------------------------------------------
(* Claims about the trace route *)

\* C20: when the timeout of a trace route request runs out and no result for
\* the node of the request has arrived since the request, the timeout state
\* is set and the timeout notice is on the screen, also when the node had an
\* earlier result at the time of the request.
C20_TimeoutShown ==
    [][(last'.op = "timeoutFires" /\ ~last'.matched)
           => (tracerouteTimeout' /\ NoticePresented')]_vars

\* C21: a trace result from the selected node that arrives while the timeout
\* state is set clears the timeout state, and after it the result is on the
\* screen and the timeout notice is not.
C21_LateResultClearsTimeout ==
    [][(/\ last'.op = "setTracerouteResult"
        /\ last'.late
        /\ selectedNode # NoNode
        /\ last'.result.from = selectedNode.id)
           => (/\ ~tracerouteTimeout'
               /\ ResultPresented'
               /\ ~NoticePresented')]_vars

\* C21 witness: a result from the selected node arrived while the timeout
\* state was set, and is on the screen.
C21_Witness ==
    /\ last.op = "setTracerouteResult"
    /\ last.late
    /\ selectedNode # NoNode
    /\ last.result.from = selectedNode.id
    /\ ResultPresented
    /\ ~tracerouteTimeout

\* C22: a trace result from a node other than the selected one leaves the
\* timeout state, the pending timeouts and timeoutRef as they are, and is not
\* on the screen as the result of the selected node.
C22_OtherResultChangesNothing ==
    [][(/\ last'.op = "setTracerouteResult"
        /\ selectedNode # NoNode
        /\ last'.result.from # selectedNode.id)
           => (/\ tracerouteTimeout' = tracerouteTimeout
               /\ {t.handle : t \in timers'} = {t.handle : t \in timers}
               /\ timeoutRef' = timeoutRef
               /\ ~ResultPresented')]_vars

\* C22 witness: a result from another node arrived while the timeout of a
\* request for the selected node was pending, and the timeout still is.
C22_Witness ==
    /\ last.op = "setTracerouteResult"
    /\ selectedNode # NoNode
    /\ last.result.from # selectedNode.id
    /\ \E t \in timers : t.handle = timeoutRef /\ t.selectedNode = selectedNode

\* C22 witness of the timeout state: a result from another node arrived while
\* the timeout state was set, and the state is still set.
C22_WitnessTimeoutState ==
    /\ last.op = "setTracerouteResult"
    /\ selectedNode # NoNode
    /\ last.result.from # selectedNode.id
    /\ last.late
    /\ tracerouteTimeout

\* C23: at most one timeout is pending, it is the one timeoutRef holds, and a
\* timeout that runs out is the one of the latest request.
C23_OneTimerPending ==
    [][/\ Cardinality(timers') <= 1
       /\ \A t \in timers' : t.handle = timeoutRef'
       /\ last'.op = "timeoutFires" => last'.latest]_vars

\* C23 witness: a trace route was requested while the timeout of the request
\* before it was pending, and one timeout is pending, that of the new request.
C23_Witness ==
    /\ last.op = "handleTraceroute"
    /\ last.pending
    /\ handles > 1
    /\ Cardinality(timers) = 1
    /\ \A t \in timers : t.handle = handles

\* C24: a timeout that was pending when the connection was lost does not set
\* the timeout state.
C24_DisconnectCancelsTimer ==
    [][(last'.op = "timeoutFires" /\ last'.cut)
           => (tracerouteTimeout' = tracerouteTimeout)]_vars

\* C35: the timeout notice is on the screen only while the node of the latest
\* trace route request is selected.
C35_NoticeForTracedNode ==
    NoticePresented => tracedNode = selectedNode.id

\* C36: a trace route request clears the stored trace result and the timeout
\* state, and from the request until a result from the node arrives no result
\* is on the screen while that node is selected.
C36_NoResultUntilAnswered ==
    [][/\ last'.op = "handleTraceroute"
           => (tracerouteResult' = NoResult /\ ~tracerouteTimeout')
       /\ (selectedNode' # NoNode /\ selectedNode'.id \in awaited')
           => ~ResultPresented']_vars

\* C36 witness: a trace route was requested for a node whose earlier result
\* was stored, and no result is on the screen.
C36_Witness ==
    /\ last.op = "handleTraceroute"
    /\ last.earlier # NoResult
    /\ last.earlier.from = selectedNode.id
    /\ selectedNode.id \in awaited
    /\ tracerouteResult = NoResult
    /\ ~ResultPresented

====
